---- MODULE Spec2Model ----
(***************************************************************************)
(* Model of game_chat/server/views.py: ServerListViewSet.list, the list    *)
(* endpoint of the chat-server directory.                                  *)
(*                                                                         *)
(* State: the stored server records (the database rows the view reads),    *)
(* the result cache of the class-level queryset object                     *)
(* `ServerListViewSet.queryset = Server.objects.all()` (one object shared  *)
(* by every request of the process), and the request in progress with its  *)
(* response.  A view instance is created per request, so `self.queryset`   *)
(* starts every request as the class-level object; `filter`, `annotate`    *)
(* and slicing return new objects and rebind the instance attribute only.  *)
(*                                                                         *)
(* Query-string values are strings; an absent parameter (Python None) is   *)
(* the empty tuple << >> and a supplied value v is the one-tuple << v >>.  *)
(***************************************************************************)
EXTENDS Integers, Sequences, FiniteSets, TLC

VARIABLES store, result_cache, req, resp, writes

vars == << store, result_cache, req, resp, writes >>

-----------------------------------------------------------------------------
(* Bounds of the model *)

\* storage writes made by the rest of the application between requests
MaxWrites == 1

\* server records ever stored
MaxServers == 4

-----------------------------------------------------------------------------
(* Small helpers *)

None == << >>

Some(v) == << v >>

Min(a, b) == IF a < b THEN a ELSE b

\* seq[:n] for n >= 0
Take(seq, n) == SubSeq(seq, 1, Min(n, Len(seq)))

\* A test for "the parameter was supplied" (is not None) in place of truthiness.
TruthyNotNone(opt) == opt # None

\* Python truthiness of the value query_params.get(...) returned:
\* None and "" are falsy, every other string is truthy.
Truthy(opt) == opt # None /\ opt[1] # ""

-----------------------------------------------------------------------------
(* int(): the conversion applied to qty (line 68) and, inside the id       *)
(* lookup, to by_serverid (line 73).  An optional sign followed by one or  *)
(* more decimal digits; anything else raises ValueError.                   *)

DigitChars == {"0", "1", "2", "3", "4", "5", "6", "7", "8", "9"}

DigitVal(c) ==
    CASE c = "0" -> 0 [] c = "1" -> 1 [] c = "2" -> 2 [] c = "3" -> 3
      [] c = "4" -> 4 [] c = "5" -> 5 [] c = "6" -> 6 [] c = "7" -> 7
      [] c = "8" -> 8 [] c = "9" -> 9

RECURSIVE AllDigits(_)
AllDigits(s) == s = "" \/ (Head(s) \in DigitChars /\ AllDigits(Tail(s)))

RECURSIVE DigitsValue(_, _)
DigitsValue(s, acc) ==
    IF s = "" THEN acc ELSE DigitsValue(Tail(s), acc * 10 + DigitVal(Head(s)))

ParseInt(s) ==
    LET signed == s # "" /\ Head(s) \in {"-", "+"}
        body   == IF signed THEN Tail(s) ELSE s
        sign   == IF signed /\ Head(s) = "-" THEN -1 ELSE 1
    IN  IF body = "" \/ ~AllDigits(body)
        THEN [ok |-> FALSE, value |-> 0]
        ELSE [ok |-> TRUE, value |-> sign * DigitsValue(body, 0)]

-----------------------------------------------------------------------------
(* Stored data.  A server record has an identifier, a name, the name of    *)
(* its category and its set of members (user identifiers).                 *)

Users == {1, 2}

CategoryNames == {"gaming", "art", "music"}

Server(id, name, category, member) ==
    [id |-> id, name |-> name, category |-> category, member |-> member]

SeedStore ==
    << Server(1, "alpha", "gaming", {1, 2}),
       Server(2, "beta", "gaming", {2}),
       Server(3, "gamma", "art", {}) >>

-----------------------------------------------------------------------------
(* Querysets.  A row is a model instance as a query yields it: the stored  *)
(* fields, the member rows the query's join on `member` ranges over, and   *)
(* the num_members annotation when the query carries one.  A working       *)
(* collection is a lazy QuerySet (rows: what the database returns for it), *)
(* or a plain list; exc names the exception an operation raised.  The      *)
(* exception classes are those of current Django; older releases raise     *)
(* AssertionError where TypeError and the slicing ValueError are raised    *)
(* here.  The handler catches neither.                                     *)

Row(server) ==
    [id |-> server.id, name |-> server.name, category |-> server.category,
     member |-> server.member, joined |-> server.member, num_members |-> None]

RECURSIVE RowsOf(_)
RowsOf(db) == IF db = << >> THEN << >> ELSE << Row(Head(db)) >> \o RowsOf(Tail(db))

QuerySet(rows, sliced, is_class) ==
    [exc |-> "", kind |-> "QuerySet", rows |-> rows, sliced |-> sliced,
     is_class |-> is_class]

PyList(rows) ==
    [exc |-> "", kind |-> "list", rows |-> rows, sliced |-> FALSE, is_class |-> FALSE]

Raise(exc) ==
    [exc |-> exc, kind |-> "QuerySet", rows |-> << >>, sliced |-> FALSE,
     is_class |-> FALSE]

\* queryset = Server.objects.all(): the class attribute every view instance
\* reads as self.queryset until it rebinds it.
ClassQuerySet(db) == QuerySet(RowsOf(db), FALSE, TRUE)

\* .filter(...) is not an attribute of a list, and a sliced query refuses it.
FilterRefused(qs) ==
    IF qs.kind = "list" THEN "AttributeError"
    ELSE IF qs.sliced THEN "TypeError"
    ELSE ""

\* A category filter that keeps every row.
FilterCategoryKeepsAll(qs, name) ==
    IF FilterRefused(qs) # "" THEN Raise(FilterRefused(qs))
    ELSE QuerySet(qs.rows, FALSE, FALSE)

\* .filter(category__name=name)
FilterCategory(qs, name) ==
    IF FilterRefused(qs) # "" THEN Raise(FilterRefused(qs))
    ELSE QuerySet(SelectSeq(qs.rows, LAMBDA r : r.category = name), FALSE, FALSE)

RECURSIVE JoinedOn(_, _)
JoinedOn(rows, user_id) ==
    IF rows = << >> THEN << >>
    ELSE << [Head(rows) EXCEPT !.joined = @ \cap {user_id}] >>
         \o JoinedOn(Tail(rows), user_id)

\* .filter(member=user_id): an inner join on the member rows, which a later
\* aggregate over `member` ranges over.
FilterMember(qs, user_id) ==
    IF FilterRefused(qs) # "" THEN Raise(FilterRefused(qs))
    ELSE QuerySet(JoinedOn(SelectSeq(qs.rows, LAMBDA r : user_id \in r.joined),
                           user_id), FALSE, FALSE)

\* A count that only tells whether the record has a member.
CountAny(row) == IF row.joined = {} THEN 0 ELSE 1

\* Count('member')
Count(row) == Cardinality(row.joined)

RECURSIVE AnnotateRows(_)
AnnotateRows(rows) ==
    IF rows = << >> THEN << >>
    ELSE << [Head(rows) EXCEPT !.num_members = Some(Count(Head(rows)))] >>
         \o AnnotateRows(Tail(rows))

\* .annotate(num_members=Count('member'))
Annotate(qs) == QuerySet(AnnotateRows(qs.rows), qs.sliced, FALSE)

\* self.queryset[: n].  A negative bound is refused; a queryset whose
\* results are already cached answers with a slice of the cached list; any
\* other queryset answers with a new, sliced queryset.
Slice(qs, n, cache) ==
    IF n < 0 THEN Raise("ValueError")
    ELSE IF qs.is_class /\ cache # None THEN PyList(Take(cache[1], n))
    ELSE QuerySet(Take(qs.rows, n), TRUE, FALSE)

\* .filter(id=value): the lookup converts the value with int().
FilterId(qs, value) ==
    IF FilterRefused(qs) # "" THEN Raise(FilterRefused(qs))
    ELSE IF ~ParseInt(value).ok THEN Raise("ValueError")
    ELSE QuerySet(SelectSeq(qs.rows, LAMBDA r : r.id = ParseInt(value).value),
                  FALSE, FALSE)

\* .exists()
Exists(qs) == qs.rows # << >>

\* Iterating a working collection: the class-level queryset fetches once
\* and then answers from its result cache.
Evaluate(qs, cache) ==
    IF qs.kind = "QuerySet" /\ qs.is_class /\ cache # None THEN cache[1]
    ELSE qs.rows

CacheAfter(qs, cache) ==
    IF qs.kind = "QuerySet" /\ qs.is_class /\ cache = None THEN Some(qs.rows)
    ELSE cache

-----------------------------------------------------------------------------
(* ServerSerializer(queryset, many=True, context={'num_members': flag}):   *)
(* the wire shape of one record; num_members only when the flag is set.    *)

Serialize(row, with_num_members) ==
    IF with_num_members
    THEN [id |-> row.id, name |-> row.name, category |-> row.category,
          num_members |-> IF row.num_members = None THEN None
                          ELSE row.num_members[1]]
    ELSE [id |-> row.id, name |-> row.name, category |-> row.category]

RECURSIVE SerializeMany(_, _)
SerializeMany(rows, with_num_members) ==
    IF rows = << >> THEN << >>
    ELSE << Serialize(Head(rows), with_num_members) >>
         \o SerializeMany(Tail(rows), with_num_members)

-----------------------------------------------------------------------------
(* The handler: ServerListViewSet.list(self, request)                      *)

Response(kind, detail, data) == [kind |-> kind, detail |-> detail, data |-> data]

\* An exception leaves the handler: no records are returned.
Failure(exc, detail, cache) ==
    [response |-> Response(exc, detail, << >>), cache |-> cache]

\* return Response(serializer.data): serializer.data iterates self.queryset.
Success(qs, with_num_members, cache) ==
    [response |-> Response("Response", "",
                           SerializeMany(Evaluate(qs, cache), with_num_members)),
     cache |-> CacheAfter(qs, cache)]

\* f'Server with id {by_serverid} not found'
NotFoundDetail(by_serverid) == "Server with id " \o by_serverid \o " not found"

\* An authentication check that never refuses.
AuthRequiredNever(by_user, user) == FALSE

\* if by_user and not request.user.is_authenticated: raise AuthenticationFailed()
AuthRequired(by_user, user) == by_user /\ ~user.is_authenticated

\* The condition guarding the membership filter, nested under `if by_user:`.
MemberFilterApplies(by_user, user) == by_user /\ ~user.is_authenticated

ListOutcome(request, db, cache) ==
    LET qp               == request.query_params
        user             == request.user
        category         == qp.category
        qty              == qp.qty
        by_user          == qp.by_user = Some("true")
        by_serverid      == qp.by_serverid
        with_num_members == qp.with_num_members = Some("true")
        q0 == ClassQuerySet(db)
        q1 == IF Truthy(category) THEN FilterCategory(q0, category[1]) ELSE q0
        q2 == IF by_user /\ MemberFilterApplies(by_user, user)
              THEN FilterMember(q1, user.id)
              ELSE q1
        q3 == IF with_num_members THEN Annotate(q2) ELSE q2
        q4 == IF Truthy(qty)
              THEN IF ParseInt(qty[1]).ok
                   THEN Slice(q3, ParseInt(qty[1]).value, cache)
                   ELSE Raise("ValueError")
              ELSE q3
        q5 == FilterId(q4, by_serverid[1])
    IN  IF AuthRequired(by_user, user)
        THEN Failure("AuthenticationFailed", "", cache)
        ELSE IF q4.exc # ""
        THEN Failure(q4.exc, "", cache)
        ELSE IF ~Truthy(by_serverid)
        THEN Success(q4, with_num_members, cache)
        ELSE IF q5.exc = "ValueError"
        THEN Failure("ValidationError", NotFoundDetail(by_serverid[1]), cache)
        ELSE IF q5.exc # ""
        THEN Failure(q5.exc, "", cache)
        ELSE IF ~Exists(q5)
        THEN Failure("ValidationError", NotFoundDetail(by_serverid[1]), cache)
        ELSE Success(q5, with_num_members, cache)

-----------------------------------------------------------------------------
(* Requests: the requester and the query string.                           *)

Optional(values) == {None} \cup {Some(v) : v \in values}

AnonymousUser == [is_authenticated |-> FALSE, id |-> 0]

AuthenticatedUser(id) == [is_authenticated |-> TRUE, id |-> id]

Requesters == {AnonymousUser, AuthenticatedUser(1)}

CategoryValues == {"", "gaming", "music"}

QtyValues == {"", "0", "2", "x", "-1"}

ByUserValues == {"true", "false"}

ByServeridValues == {"", "2", "9", "x"}

WithNumMembersValues == {"true", "false"}

QueryParams ==
    [category : Optional(CategoryValues), qty : Optional(QtyValues),
     by_user : Optional(ByUserValues), by_serverid : Optional(ByServeridValues),
     with_num_members : Optional(WithNumMembersValues)]

Requests == [user : Requesters, query_params : QueryParams]

-----------------------------------------------------------------------------
(* State machine *)

Init ==
    /\ store = SeedStore
    /\ result_cache = None
    /\ req = None
    /\ resp = None
    /\ writes = 0

\* A list step that deletes the stored records its filters drop.
ListDeleting(r) ==
    /\ req = None
    /\ LET outcome == ListOutcome(r, store, result_cache)
       IN  /\ req' = Some(r)
           /\ resp' = Some(outcome.response)
           /\ result_cache' = outcome.cache
           /\ store' = SelectSeq(store, LAMBDA s :
                          \E i \in 1..Len(outcome.response.data) :
                              outcome.response.data[i].id = s.id)
    /\ UNCHANGED writes

\* One GET of the list endpoint, from dispatch to the response or exception.
List(r) ==
    /\ req = None
    /\ LET outcome == ListOutcome(r, store, result_cache)
       IN  /\ req' = Some(r)
           /\ resp' = Some(outcome.response)
           /\ result_cache' = outcome.cache
    /\ UNCHANGED << store, writes >>

\* The response (or error) has been sent; the view instance is dropped.
Finish ==
    /\ req # None
    /\ req' = None
    /\ resp' = None
    /\ UNCHANGED << store, result_cache, writes >>

\* The rest of the application writes to storage between requests.
AddServer(category) ==
    /\ req = None
    /\ writes < MaxWrites
    /\ Len(store) < MaxServers
    /\ store' = Append(store, Server(Len(store) + 1, "delta", category, {}))
    /\ writes' = writes + 1
    /\ UNCHANGED << result_cache, req, resp >>

Join(user_id, i) ==
    /\ req = None
    /\ writes < MaxWrites
    /\ user_id \notin store[i].member
    /\ store' = [store EXCEPT ![i].member = @ \cup {user_id}]
    /\ writes' = writes + 1
    /\ UNCHANGED << result_cache, req, resp >>

Leave(user_id, i) ==
    /\ req = None
    /\ writes < MaxWrites
    /\ user_id \in store[i].member
    /\ store' = [store EXCEPT ![i].member = @ \ {user_id}]
    /\ writes' = writes + 1
    /\ UNCHANGED << result_cache, req, resp >>

Next ==
    \/ req = None /\ \E r \in Requests : List(r)
    \/ Finish
    \/ \E c \in CategoryNames : AddServer(c)
    \/ \E u \in Users, i \in 1..Len(store) : Join(u, i)
    \/ \E u \in Users, i \in 1..Len(store) : Leave(u, i)

Spec == Init /\ [][Next]_vars

-----------------------------------------------------------------------------
(* Vocabulary of the properties: the request just served and its outcome.  *)

Served == req # None

Params == req[1].query_params

Requester == req[1].user

Outcome == resp[1]

Returned == Outcome.kind = "Response"

ByUserRequested == Params.by_user = Some("true")

WithNumMembersRequested == Params.with_num_members = Some("true")

PassesAuthentication == ~(ByUserRequested /\ ~Requester.is_authenticated)

Supplied(opt) == opt # None /\ opt[1] # ""

\* qty carries an integer N >= 0
QtyIsNatural == Supplied(Params.qty) /\ ParseInt(Params.qty[1]).ok
                /\ ParseInt(Params.qty[1]).value >= 0

QtyN == ParseInt(Params.qty[1]).value

StoredIds == {store[i].id : i \in 1..Len(store)}

StoredServer(id) == CHOOSE s \in {store[i] : i \in 1..Len(store)} : s.id = id

ReturnedIds == {Outcome.data[i].id : i \in 1..Len(Outcome.data)}

\* The identifier by_serverid names, when it names a stored record.
NamesStoredServer(value) ==
    ParseInt(value).ok /\ ParseInt(value).value \in StoredIds

\* The stored records that pass the category and membership filters the
\* request asks for, in query order.
Matching ==
    SelectSeq(store, LAMBDA s :
        /\ (Supplied(Params.category) => s.category = Params.category[1])
        /\ (ByUserRequested => Requester.id \in s.member))

RECURSIVE IdsOf(_)
IdsOf(seq) == IF seq = << >> THEN << >> ELSE << Head(seq).id >> \o IdsOf(Tail(seq))

\* The request with every parameter that the handler is said to ignore removed.
WithoutIgnored(r) ==
    LET qp == r.query_params
        drop(opt) == IF opt = Some("") THEN None ELSE opt
        flag(opt) == IF opt = Some("true") THEN opt ELSE None
    IN  [r EXCEPT !.query_params =
            [category |-> drop(qp.category), qty |-> drop(qp.qty),
             by_user |-> flag(qp.by_user), by_serverid |-> drop(qp.by_serverid),
             with_num_members |-> flag(qp.with_num_members)]]

-----------------------------------------------------------------------------
(* C1: with by_user "true" and an authenticated requester, every returned  *)
(* record has the requester in its member set, and every stored record     *)
(* the requester belongs to (that passes the category filter, when no qty  *)
(* or by_serverid narrows the result) is returned.                         *)
C1_ByUserRestrictsToMembership ==
    (Served /\ ByUserRequested /\ Requester.is_authenticated /\ Returned)
    => /\ \A id \in ReturnedIds : Requester.id \in StoredServer(id).member
       /\ (~Supplied(Params.qty) /\ ~Supplied(Params.by_serverid))
          => \A i \in 1..Len(Matching) : Matching[i].id \in ReturnedIds

(* C2: with by_user "true" and no authenticated requester, the request     *)
(* ends in AuthenticationFailed and returns no records, whatever the other *)
(* parameters are.                                                         *)
C2_UnauthenticatedByUserFails ==
    (Served /\ ByUserRequested /\ ~Requester.is_authenticated)
    => Outcome.kind = "AuthenticationFailed" /\ Outcome.data = << >>

C2_Witness ==
    /\ Served /\ ByUserRequested /\ ~Requester.is_authenticated
    /\ Params.qty = Some("x") /\ Params.by_serverid = Some("x")
    /\ Params.category = Some("gaming")
    /\ Outcome.kind = "AuthenticationFailed"

(* C3: a request that passes the authentication check and whose            *)
(* by_serverid cannot be parsed or names no stored record ends in          *)
(* ValidationError "Server with id <by_serverid> not found", whatever      *)
(* category, with_num_members and non-negative integer qty it carries.     *)
C3_UnknownServeridIsValidationError ==
    (/\ Served /\ PassesAuthentication
     /\ Supplied(Params.by_serverid)
     /\ (Params.qty = None \/ QtyIsNatural)
     /\ ~NamesStoredServer(Params.by_serverid[1]))
    => /\ Outcome.kind = "ValidationError"
       /\ Outcome.detail = "Server with id " \o Params.by_serverid[1] \o " not found"

(* C4: with qty = N >= 0 the returned sequence is the first N of the       *)
(* records that pass the other requested filters, so its length is         *)
(* min(N, matching_count).                                                 *)
C4_QtyTruncatesMatching ==
    (/\ Served /\ PassesAuthentication /\ QtyIsNatural
     /\ ~Supplied(Params.by_serverid))
    => /\ Returned
       /\ Len(Outcome.data) = Min(QtyN, Len(Matching))
       /\ IdsOf(Outcome.data) = IdsOf(Take(Matching, QtyN))

(* C5: with with_num_members "true", every returned record carries         *)
(* num_members equal to the size of that record's stored member set.       *)
C5_NumMembersIsMemberCount ==
    (Served /\ WithNumMembersRequested /\ Returned)
    => \A i \in 1..Len(Outcome.data) :
          Outcome.data[i].num_members
              = Cardinality(StoredServer(Outcome.data[i].id).member)

C5_Witness ==
    /\ Served /\ WithNumMembersRequested /\ Returned
    /\ ByUserRequested /\ Supplied(Params.category)
    /\ \E i \in 1..Len(Outcome.data) : Outcome.data[i].num_members = 2
    /\ \E i \in 1..Len(Outcome.data) : Outcome.data[i].num_members = 1

(* C6 as stated: with a category present every returned record has that    *)
(* category, and when no stored record has it (and by_serverid is absent)  *)
(* the request succeeds with an empty sequence.                            *)
C6_CategoryFilterAsStated ==
    (Served /\ Supplied(Params.category))
    => /\ Returned =>
            \A i \in 1..Len(Outcome.data) :
                Outcome.data[i].category = Params.category[1]
       /\ ((\A i \in 1..Len(store) : store[i].category # Params.category[1])
           /\ Params.by_serverid = None)
          => Returned /\ Outcome.data = << >>

(* C6 amended: with a category present every returned record has that      *)
(* category, and when no stored record has it, by_serverid is absent or    *)
(* empty, the request passes the authentication check and qty is absent,   *)
(* empty or a non-negative integer, the request succeeds with an empty     *)
(* sequence.                                                               *)
C6_CategoryFilter ==
    (Served /\ Supplied(Params.category))
    => /\ Returned =>
            \A i \in 1..Len(Outcome.data) :
                Outcome.data[i].category = Params.category[1]
       /\ (/\ \A i \in 1..Len(store) : store[i].category # Params.category[1]
           /\ ~Supplied(Params.by_serverid)
           /\ PassesAuthentication
           /\ (~Supplied(Params.qty) \/ QtyIsNatural))
          => Returned /\ Outcome.data = << >>

C6_Witness ==
    /\ Served /\ Params.category = Some("music")
    /\ Params.qty = Some("2") /\ ByUserRequested /\ WithNumMembersRequested
    /\ Returned /\ Outcome.data = << >>
    /\ Len(store) > 3

(* C7: the response to a request is a function of the request, its         *)
(* requester and the stored data only: it is the response the handler      *)
(* gives when its working collection is read afresh from the full store.   *)
(* Stated of the successful responses.                                     *)
C7_ResponseDependsOnStoreOnly ==
    (Served /\ Returned) => Outcome = ListOutcome(req[1], store, None).response

(* C8: every list step, whatever its outcome, leaves the stored records,   *)
(* their categories and their member sets unchanged.                       *)
C8_ListOnlyReads ==
    [][(req = None /\ req' # None) => store' = store]_vars

C8_Witness ==
    /\ Served /\ Outcome.kind = "ValidationError"
    /\ Supplied(Params.category) /\ WithNumMembersRequested
    /\ store # SeedStore

(* C9: a request with qty = N >= 0 and by_serverid ends either in the      *)
(* single record with that identifier or in ValidationError "Server with   *)
(* id <by_serverid> not found"; no other outcome occurs.                   *)
C9_QtyThenServeridCompletes ==
    (/\ Served /\ PassesAuthentication /\ QtyIsNatural
     /\ Supplied(Params.by_serverid))
    => \/ /\ Returned
          /\ Len(Outcome.data) = 1
          /\ Outcome.data[1].id = ParseInt(Params.by_serverid[1]).value
       \/ /\ Outcome.kind = "ValidationError"
          /\ Outcome.detail
                = "Server with id " \o Params.by_serverid[1] \o " not found"

(* C10: an empty category, qty or by_serverid, and a by_user or            *)
(* with_num_members other than "true", change nothing: the response is     *)
(* the response to the same request without those parameters.              *)
C10_EmptyIsAbsent ==
    [][(req = None /\ req' # None)
        => resp' = Some(ListOutcome(WithoutIgnored(req'[1]), store,
                                    result_cache).response)]_vars

C10_Witness ==
    /\ Served
    /\ Params.category = Some("") /\ Params.qty = Some("")
    /\ Params.by_serverid = Some("")
    /\ Params.by_user = Some("false") /\ Params.with_num_members = Some("false")
    /\ Returned /\ Len(Outcome.data) = Len(store)

====
